---------------------------- MODULE Spec2Model ----------------------------
(***************************************************************************)
(* A model of the news crawler (NewsCrawlerService.CrawlNaverFinanceNews   *)
(* and the store helpers it calls).  Go strings are sequences of bytes     *)
(* (0..255); the listing pages, the article pages and the outcome of every *)
(* network and store call are the environment's choice.                    *)
(***************************************************************************)
EXTENDS Integers, Sequences, FiniteSets, TLC

(***************************************************************************)
(* Bounds of the model.                                                    *)
(***************************************************************************)
\* largest page count a crawl is started with
MaxPages == 2
\* largest number of <li> nodes a listing page holds
MaxItems == 2
\* longest byte string the sanitizer is applied to in SpecClean
MaxLen == 4
\* most fragments a listing link is built from in SpecUrl
MaxFrags == 3
\* most <li> nodes the site serves to one crawl, over all its pages
MaxServed == 3
\* how many bytes over MaxDocIDLen the longest URL of SpecKey is
MaxOver == 2
\* how many page counts past the handler's limit a direct call is made with
MaxBeyond == 1

(***************************************************************************)
(* Program constants.                                                      *)
(***************************************************************************)
\* for retry := 0; retry < 3; retry++
MaxAttempts == 3
\* if len(docID) > 500 { docID = docID[:500] }
MaxDocIDLen == 500
\* http.StatusOK
StatusOK == 200
\* utf8.RuneError, U+FFFD
RuneError == 65533
\* the rune ' ' that replaces an invalid byte
Space == 32

\* Config.NaverFinanceBaseURL: "https://finance.naver.com/news/mainnews.naver"
NaverFinanceBaseURL ==
    <<104, 116, 116, 112, 115, 58, 47, 47, 102, 105, 110, 97, 110, 99, 101, 46,
      110, 97, 118, 101, 114, 46, 99, 111, 109, 47, 110, 101, 119, 115, 47, 109,
      97, 105, 110, 110, 101, 119, 115, 46, 110, 97, 118, 101, 114>>
\* Config.NaverArticleBaseURL: "https://n.news.naver.com/mnews/article"
NaverArticleBaseURL ==
    <<104, 116, 116, 112, 115, 58, 47, 47, 110, 46, 110, 101, 119, 115, 46, 110,
      97, 118, 101, 114, 46, 99, 111, 109, 47, 109, 110, 101, 119, 115, 47, 97,
      114, 116, 105, 99, 108, 101>>
\* "https://finance.naver.com"
SiteOrigin ==
    <<104, 116, 116, 112, 115, 58, 47, 47, 102, 105, 110, 97, 110, 99, 101, 46,
      110, 97, 118, 101, 114, 46, 99, 111, 109>>
\* "?page="
PageQuery == <<63, 112, 97, 103, 101, 61>>
\* "article_id="
ArticleIDKey == <<97, 114, 116, 105, 99, 108, 101, 95, 105, 100, 61>>
\* "office_id="
OfficeIDKey == <<111, 102, 102, 105, 99, 101, 95, 105, 100, 61>>
\* "/"
Slash == <<47>>
\* the bytes / : ? & = # % . that a document ID may not hold
ReservedBytes == {47, 58, 63, 38, 61, 35, 37, 46}
\* "_"
Underscore == 95

(***************************************************************************)
(* Byte strings.                                                           *)
(***************************************************************************)
\* s[i:] of Go, with i counted from 1
From(s, i) == SubSeq(s, i, Len(s))

IsDigit(b) == b >= 48 /\ b <= 57

\* whether t occurs in s at position i
MatchesAt(s, i, t) ==
    /\ i + Len(t) - 1 <= Len(s)
    /\ SubSeq(s, i, i + Len(t) - 1) = t

\* the longest run of digits of s that starts at position i
RECURSIVE DigitRun(_, _)
DigitRun(s, i) ==
    IF i <= Len(s) /\ IsDigit(s[i]) THEN <<s[i]>> \o DigitRun(s, i + 1) ELSE <<>>

\* regexp `key(\d+)`.FindStringSubmatch(s): <<>> when there is no match, else
\* <<whole match, group 1>>; the match is the leftmost one, the digits greedy
FindStringSubmatch(key, s) ==
    LET starts == {i \in 1..Len(s) :
                      MatchesAt(s, i, key) /\ DigitRun(s, i + Len(key)) # <<>>}
    IN  IF starts = {} THEN <<>>
        ELSE LET i == CHOOSE j \in starts : \A k \in starts : j <= k
                 d == DigitRun(s, i + Len(key))
             IN  <<key \o d, d>>

\* fmt.Sprintf("%d", n) for n >= 0
RECURSIVE Decimal(_)
Decimal(n) == IF n < 10 THEN <<48 + n>> ELSE Decimal(n \div 10) \o <<48 + (n % 10)>>

(***************************************************************************)
(* unicode/utf8, as the sanitizer uses it.                                 *)
(***************************************************************************)
\* the length of the encoding a first byte announces; 0 for a byte that
\* starts no encoding (utf8.first)
SizeOf(b) ==
    IF b < 128 THEN 1
    ELSE IF b < 194 THEN 0
    ELSE IF b < 224 THEN 2
    ELSE IF b < 240 THEN 3
    ELSE IF b < 245 THEN 4
    ELSE 0

\* the range the second byte must lie in (utf8.acceptRanges)
AcceptLo(b) == IF b = 224 THEN 160 ELSE IF b = 240 THEN 144 ELSE 128
AcceptHi(b) == IF b = 237 THEN 159 ELSE IF b = 244 THEN 143 ELSE 191

IsCont(b) == b >= 128 /\ b <= 191

\* utf8.DecodeRuneInString(s[i:]): the rune and the number of bytes it takes
DecodeRuneInString(s, i) ==
    LET n  == Len(s) - i + 1
        b0 == s[i]
        sz == SizeOf(b0)
        bad == [r |-> RuneError, size |-> 1]
    IN  IF n < 1 THEN [r |-> RuneError, size |-> 0]
        ELSE IF sz = 1 THEN [r |-> b0, size |-> 1]
        ELSE IF sz = 0 \/ n < sz THEN bad
        ELSE IF s[i + 1] < AcceptLo(b0) \/ AcceptHi(b0) < s[i + 1] THEN bad
        ELSE IF sz = 2 THEN [r |-> (b0 % 32) * 64 + (s[i + 1] % 64), size |-> 2]
        ELSE IF ~IsCont(s[i + 2]) THEN bad
        ELSE IF sz = 3
             THEN [r |-> (b0 % 16) * 4096 + (s[i + 1] % 64) * 64 + (s[i + 2] % 64),
                   size |-> 3]
        ELSE IF ~IsCont(s[i + 3]) THEN bad
        ELSE [r |-> (b0 % 8) * 262144 + (s[i + 1] % 64) * 4096
                    + (s[i + 2] % 64) * 64 + (s[i + 3] % 64),
              size |-> 4]

\* string(rune): the UTF-8 encoding of r (utf8.EncodeRune)
EncodeRune(r) ==
    IF r < 0 \/ r > 1114111 \/ (r >= 55296 /\ r <= 57343)
    THEN <<239, 191, 189>>
    ELSE IF r < 128 THEN <<r>>
    ELSE IF r < 2048 THEN <<192 + (r \div 64), 128 + (r % 64)>>
    ELSE IF r < 65536
         THEN <<224 + (r \div 4096), 128 + ((r \div 64) % 64), 128 + (r % 64)>>
    ELSE <<240 + (r \div 262144), 128 + ((r \div 4096) % 64),
           128 + ((r \div 64) % 64), 128 + (r % 64)>>

\* utf8.ValidString(s[i:])
ValidFrom(s, i) ==
    LET valid[k \in 1..(Len(s) + 1)] ==
            IF k > Len(s) THEN TRUE
            ELSE LET d == DecodeRuneInString(s, k)
                 IN  IF d.size = 1 /\ s[k] >= 128 THEN FALSE
                     ELSE valid[k + d.size]
    IN  valid[i]

ValidString(s) == ValidFrom(s, 1)

\* the loop of cleanUTF8String from byte i on: the runes it appends to v
CleanRunes(s, i) ==
    LET runes[k \in 1..(Len(s) + 1)] ==
            IF k > Len(s) THEN <<>>
            ELSE LET d == DecodeRuneInString(s, k)
                 IN  IF d.r = RuneError /\ DecodeRuneInString(s, k).size = 1
                     THEN <<Space>> \o runes[k + d.size]
                     ELSE <<d.r>> \o runes[k + d.size]
    IN  runes[i]

\* string(v) for a slice of runes
RECURSIVE EncodeRunes(_)
EncodeRunes(v) ==
    IF v = <<>> THEN <<>> ELSE EncodeRune(Head(v)) \o EncodeRunes(Tail(v))

\* a mutant of cleanUTF8String: v is a slice of bytes, and each rune is
\* appended as byte(r)
cleanUTF8StringBytes(s) ==
    IF ValidString(s) THEN s
    ELSE LET v == CleanRunes(s, 1) IN [k \in 1..Len(v) |-> v[k] % 256]

cleanUTF8String(s) ==
    IF ValidString(s) THEN s
    ELSE CHOOSE str \in {EncodeRunes(v) : v \in {CleanRunes(s, 1)}} : TRUE


(***************************************************************************)
(* strings.TrimSpace.                                                      *)
(***************************************************************************)
\* unicode.IsSpace
IsSpaceRune(r) ==
    \/ r \in {9, 10, 11, 12, 13, 32, 133, 160, 5760, 8232, 8233, 8239, 8287, 12288}
    \/ (r >= 8192 /\ r <= 8202)

\* utf8.DecodeLastRuneInString(s)
DecodeLastRuneInString(s) ==
    LET end == Len(s)
        lim == IF end - 4 < 0 THEN 0 ELSE end - 4
        cands == {j \in (lim + 1)..(end - 1) : ~IsCont(s[j])}
        start == IF cands = {} THEN (IF lim = 0 THEN 1 ELSE lim)
                 ELSE CHOOSE j \in cands : \A k \in cands : k <= j
        d == DecodeRuneInString(SubSeq(s, start, end), 1)
    IN  IF end = 0 THEN [r |-> RuneError, size |-> 0]
        ELSE IF s[end] < 128 THEN [r |-> s[end], size |-> 1]
        ELSE IF start + d.size - 1 # end THEN [r |-> RuneError, size |-> 1]
        ELSE d

RECURSIVE TrimLeft(_)
TrimLeft(s) ==
    IF s = <<>> THEN s
    ELSE LET d == DecodeRuneInString(s, 1)
         IN  IF IsSpaceRune(d.r) THEN TrimLeft(From(s, 1 + d.size)) ELSE s

RECURSIVE TrimRight(_)
TrimRight(s) ==
    IF s = <<>> THEN s
    ELSE LET d == DecodeLastRuneInString(s)
         IN  IF IsSpaceRune(d.r) THEN TrimRight(SubSeq(s, 1, Len(s) - d.size)) ELSE s

TrimSpace(s) == TrimRight(TrimLeft(s))

(***************************************************************************)
(* The store key and the canonical URL.                                    *)
(***************************************************************************)
\* the eight strings.ReplaceAll calls: each reserved byte becomes "_"
ReplaceReserved(url) ==
    [i \in 1..Len(url) |-> IF url[i] \in ReservedBytes THEN Underscore ELSE url[i]]

\* lines 86-97: the docID articleExistsInFirestore computes from a URL
DocID(url) ==
    LET docID == ReplaceReserved(url)
    IN  IF Len(docID) > MaxDocIDLen THEN SubSeq(docID, 1, MaxDocIDLen) ELSE docID

\* lines 131-142: the docID updateArticleAISummaryToEmpty computes, with its
\* own ReplaceAll calls ("/", ":", "?", "&", "=", "#", "%", ".") and its own cut
UpdateDocID(url) ==
    LET docID == [i \in 1..Len(url) |->
                     IF url[i] \in {47, 58, 63, 38, 61, 35, 37, 46} THEN 95
                     ELSE url[i]]
    IN  IF Len(docID) > 500 THEN SubSeq(docID, 1, 500) ELSE docID

\* a mutant of SaveDocID: the "." is kept
SaveDocIDKeepsDot(url) ==
    LET docID == [i \in 1..Len(url) |->
                     IF url[i] \in {47, 58, 63, 38, 61, 35, 37} THEN 95
                     ELSE url[i]]
    IN  IF Len(docID) > 500 THEN SubSeq(docID, 1, 500) ELSE docID

\* lines 166-177: the docID saveArticleToFirestore computes from article.URL
SaveDocID(url) ==
    LET docID == [i \in 1..Len(url) |->
                     IF url[i] \in {47, 58, 63, 38, 61, 35, 37, 46} THEN 95
                     ELSE url[i]]
    IN  IF Len(docID) > 500 THEN SubSeq(docID, 1, 500) ELSE docID

\* a mutant of ReconstructURL: the two identifiers are swapped
ReconstructURLSwapped(originalLink) ==
    LET articleIDMatch == FindStringSubmatch(ArticleIDKey, originalLink)
        officeIDMatch  == FindStringSubmatch(OfficeIDKey, originalLink)
    IN  IF Len(articleIDMatch) > 1 /\ Len(officeIDMatch) > 1
        THEN NaverArticleBaseURL \o Slash \o articleIDMatch[2]
                 \o Slash \o officeIDMatch[2]
        ELSE SiteOrigin \o originalLink

\* fullArticleURL, from the href of the listing item
ReconstructURL(originalLink) ==
    LET articleIDMatch == FindStringSubmatch(ArticleIDKey, originalLink)
        officeIDMatch  == FindStringSubmatch(OfficeIDKey, originalLink)
    IN  IF Len(articleIDMatch) > 1 /\ Len(officeIDMatch) > 1
        THEN NaverArticleBaseURL \o Slash \o officeIDMatch[2]
                 \o Slash \o articleIDMatch[2]
        ELSE SiteOrigin \o originalLink

\* fmt.Sprintf("%s?page=%d", NaverFinanceBaseURL, pageNum)
PageURL(pageNum) == NaverFinanceBaseURL \o PageQuery \o Decimal(pageNum)

\* http.NewRequest returns an error for a URL that url.Parse rejects: one
\* that holds an ASCII control byte
NewRequestFails(url) == \E i \in 1..Len(url) : url[i] < 32 \/ url[i] = 127


(***************************************************************************)
(* What the target site can serve.                                         *)
(***************************************************************************)
\* the text of <dd class="articleSubject"><a>: none, blank, "T "
TitleTexts == {<<>>, <<32>>, <<84, 32>>}

\* the href of that <a>: none; "/news/news_read.naver?article_id=12&office_id=3";
\* "/n\xFF" (an invalid byte); "/n\t" (a control byte)
LinkBoth ==
    <<47, 110, 101, 119, 115, 47, 110, 101, 119, 115, 95, 114, 101, 97, 100, 46,
      110, 97, 118, 101, 114, 63, 97, 114, 116, 105, 99, 108, 101, 95, 105, 100,
      61, 49, 50, 38, 111, 102, 102, 105, 99, 101, 95, 105, 100, 61, 51>>
LinkInvalid == <<47, 110, 255>>
LinkControl == <<47, 110, 9>>
Hrefs == {<<>>, LinkBoth, LinkInvalid, LinkControl}

\* a child of <dd class="articleSummary">: its class and its text
Node(cls, text) == [cls |-> cls, text |-> text]
\* "P" in span.press, a date in span.wdate, "|" in span.bar, the teaser " s\xFF "
PressNode == Node("press", <<80>>)
WdateNode == Node("wdate", <<49>>)
BarNode == Node("bar", <<124>>)
TeaserNode == Node("text", <<32, 115, 255, 32>>)

\* the <dd class="articleSummary"> of an item: <<>> stands for none
SummaryDds ==
    { <<>>,
      <<TeaserNode, PressNode, WdateNode, BarNode>>,
      <<TeaserNode, WdateNode>>,
      <<PressNode, BarNode>>,
      <<Node("press", <<32>>), TeaserNode>> }

\* the <li> nodes that ul.newsList can hold
ListItems == [titleText : TitleTexts, href : Hrefs, dd : SummaryDds]

\* an article page: whether it holds <article id="dic_area">, and the
\* container's children ("script" stands for the nodes line 465 removes)
ArticleDocs ==
    { [container |-> FALSE, nodes |-> <<>>],
      [container |-> TRUE, nodes |-> <<Node("script", <<120>>)>>],
      [container |-> TRUE,
       nodes |-> <<Node("script", <<120>>), Node("text", <<32, 98, 255, 32>>)>>] }

\* the status codes a response can carry
Statuses == {200, 201, 404}

\* the classes of the nodes of the model
Classes == {"text", "press", "wdate", "bar", "script"}

\* Selection.Text() of the nodes of ns whose class is in keep
RECURSIVE TextOf(_, _)
TextOf(ns, keep) ==
    IF ns = <<>> THEN <<>>
    ELSE (IF Head(ns).cls \in keep THEN Head(ns).text ELSE <<>>)
             \o TextOf(Tail(ns), keep)

\* lines 335-362: the four fields read from an <li>
ExtractItem(li) ==
    [ title        |-> TrimSpace(li.titleText),
      originalLink |-> li.href,
      sourceText   |-> TrimSpace(TextOf(li.dd, {"press"})),
      summaryText  |-> TrimSpace(TextOf(li.dd, Classes \ {"press", "wdate", "bar"})) ]

\* a mutant of MissingField: the source is not checked
MissingFieldButSource(it) ==
    it.title = <<>> \/ it.summaryText = <<>> \/ it.originalLink = <<>>

\* line 365: the validation of the extracted fields
MissingField(it) ==
    it.title = <<>> \/ it.summaryText = <<>> \/ it.sourceText = <<>>
        \/ it.originalLink = <<>>

\* lines 463-466: the text of the body container
ExtractContent(doc) == TrimSpace(TextOf(doc.nodes, Classes \ {"script"}))


(***************************************************************************)
(* The state.                                                              *)
(***************************************************************************)
VARIABLES
    store,   \* the newsArticles collection: document ID -> document
    now,     \* time.Now(), a logical clock
    run,     \* per crawl invocation: the locals of CrawlNaverFinanceNews
    obs,     \* per crawl invocation: what it has done and been served (history)
    arg,     \* SpecClean, SpecUrl: the string the function is applied to
    res,     \* SpecClean, SpecUrl: the results so far
    fn       \* SpecClean, SpecUrl: what has been applied

crawl == <<store, now, run, obs>>
pure == <<arg, res, fn>>
vars == <<store, now, run, obs, arg, res, fn>>

\* the crawl invocations; Spec runs the first one alone
Crawls == {1, 2}
Single == {1}

\* "X", a summary written by the summarization server
SomeAISummary == <<88>>

\* a NewsArticle
Article(title, summary, content, ai, source, url, at) ==
    [ title |-> title, summary |-> summary, content |-> content, aiSummary |-> ai,
      source |-> source, url |-> url, collectedAt |-> at ]

\* a stored document: the article's fields, whether the aiSummary field is
\* present, and whether DataTo can convert the document to a NewsArticle
Document(art, hasAI, ok) == [art |-> art, hasAI |-> hasAI, ok |-> ok]

\* the documents that may be stored before the crawl starts, all for the
\* canonical URL of LinkBoth and collected at time 0
PriorArticle(ai) ==
    Article(<<84>>, <<115>>, <<111>>, ai, <<80>>, ReconstructURL(LinkBoth), 0)
PriorDocuments ==
    { Document(PriorArticle(<<>>), FALSE, TRUE),
      Document(PriorArticle(<<>>), TRUE, TRUE),
      Document(PriorArticle(SomeAISummary), TRUE, TRUE),
      Document(PriorArticle(<<>>), TRUE, FALSE) }

\* a store holding d under the key of its URL
StoreOf(d) == [k \in {DocID(d.art.url)} |-> d]
EmptyStore == [k \in {} |-> 0]

\* a mutant of StoreSet: an existing document is kept
StoreSetIfAbsent(st, key, art) ==
    [k \in DOMAIN st \cup {key} |->
        IF k \in DOMAIN st THEN st[k] ELSE Document(art, TRUE, TRUE)]

\* Collection.Doc(key).Set: full overwrite
StoreSet(st, key, art) ==
    [k \in DOMAIN st \cup {key} |->
        IF k = key THEN Document(art, TRUE, TRUE) ELSE st[k]]

\* Collection.Doc(key).Update of the field aiSummary to ""
StoreUpdate(st, key) ==
    [st EXCEPT ![key] = [@ EXCEPT !.art.aiSummary = <<>>, !.hasAI = TRUE]]

\* writing document d over st[key] turns a non-empty aiSummary into ""
ClearsSummary(st, key, d) ==
    /\ key \in DOMAIN st
    /\ st[key].art.aiSummary # <<>> /\ d.art.aiSummary = <<>>

\* writing document d over st[key] changes its collectedAt
ChangesCollectedAt(st, key, d) ==
    key \in DOMAIN st /\ st[key].art.collectedAt # d.art.collectedAt

\* the locals of a crawl before it starts and between two items
NoItem ==
    [ title |-> <<>>, summaryText |-> <<>>, sourceText |-> <<>>,
      originalLink |-> <<>>, fullArticleURL |-> <<>>, fullContent |-> <<>>,
      retry |-> 0 ]

\* handler, pagesStr and status are those of the request to
\* /api/schedule/crawl when the crawl is called by its handler (status 0: no
\* response yet)
IdleRun ==
    [ pc |-> "idle", pages |-> 0, pageNum |-> 0, nItems |-> 0, i |-> 0,
      item |-> NoItem, allNews |-> <<>>, err |-> FALSE,
      handler |-> FALSE, pagesStr |-> <<>>, status |-> 0 ]

\* what is recorded of the item being processed
NoItemObs ==
    [ started |-> FALSE, discarded |-> FALSE,
      lookup |-> "none", lookupKey |-> <<>>, foundAI |-> <<>>,
      updates |-> 0, updateFailed |-> FALSE,
      attempts |-> <<>>, sleeps |-> <<>>, noRequest |-> FALSE, doc |-> <<>>,
      sets |-> 0, setKey |-> <<>>, setOverExisting |-> FALSE, setFailed |-> FALSE,
      clearedSummary |-> FALSE, changedCollectedAt |-> FALSE,
      teaser |-> <<>>,
      newsBefore |-> 0, itemDelay |-> FALSE ]

\* what is recorded of the crawl: the pages requested, the status of the last
\* listing response (0: none), why the page loop was left, the items that
\* finished on the current page, the articles whose Set succeeded, whether an
\* item of the run has failed
IdleObs ==
    [ listingGETs |-> <<>>, listingStatus |-> 0, stopped |-> "none",
      emptyPage |-> 0, itemsAfterEmpty |-> 0,
      pageDelay |-> FALSE, served |-> 0, finished |-> 0, written |-> <<>>,
      itemFailed |-> FALSE, item |-> NoItemObs ]

\* the item was abandoned or degraded by an item-level failure: a missing field
\* (365-369), a failed lookup (385-388), an article fetch that gave no body
\* (405-472), a failed save (493-496)
ItemFailure(o) ==
    \/ o.discarded
    \/ o.lookup \in {"error", "unconvertible"}
    \/ /\ o.lookup = "notFound"
       /\ o.attempts = <<>> \/ o.attempts[Len(o.attempts)] # "container"
    \/ o.setFailed

NoCall == arg = <<>> /\ res = <<>> /\ fn = "none"

Init ==
    /\ store \in {EmptyStore} \cup {StoreOf(d) : d \in PriorDocuments}
    /\ now = 1
    /\ run = [c \in Crawls |-> IdleRun]
    /\ obs = [c \in Crawls |-> IdleObs]
    /\ NoCall


(***************************************************************************)
(* The environment's answers.                                              *)
(***************************************************************************)
\* a GET's result: a transport error (client.Do returns err), or a response
\* with a status whose body may fail to be read ("read") or parsed ("parse")
Response(transportErr, status, bodyErr) ==
    [transportErr |-> transportErr, status |-> status, bodyErr |-> bodyErr]
Responses ==
    {Response(TRUE, 0, "none")}
        \cup {Response(FALSE, st, "none") : st \in Statuses}
        \cup {Response(FALSE, StatusOK, e) : e \in {"read", "parse"}}

\* the page counts a crawl may be called with
PageCounts == (0 - 1)..MaxPages

(***************************************************************************)
(* CrawlNaverFinanceNews, one action per step.                             *)
(***************************************************************************)
Set(c, r) == run' = [run EXCEPT ![c] = r]
Obs(c, o) == obs' = [obs EXCEPT ![c] = o]
ObsItem(c, o) == obs' = [obs EXCEPT ![c].item = o]

\* a mutant of AfterParse: an empty listing ends the page, not the crawl
AfterParseContinue(n) == IF n = 0 THEN "pageEnd" ELSE "item"

\* lines 319-323: where the loop goes once the listing is parsed into n items
AfterParse(n) == IF n = 0 THEN "returned" ELSE "item"

\* mutants of AfterFound: the Update is never made; it is always made
AfterFoundNever(aiSummary) == "itemEnd"
AfterFoundAlways(aiSummary) == "update"

\* lines 389-400: where the callback goes when the article exists, given the
\* AISummary of the stored article
AfterFound(aiSummary) == IF aiSummary = <<>> THEN "update" ELSE "itemEnd"

\* a mutant of InitialContent: the content starts empty
InitialContentEmpty(summaryText) == <<>>

\* line 403: fullContent := summaryText
InitialContent(summaryText) == summaryText

\* a mutant of AfterTransportError: one pass too many
AfterTransportErrorOneMore(retry) ==
    IF retry + 1 <= MaxAttempts THEN "fetch" ELSE "save"

\* a mutant of AfterTransportError: the loop has no last pass
AfterTransportErrorAgain(retry) == "fetch"

\* lines 405, 415-421: where the retry loop goes after a transport error in
\* pass retry
AfterTransportError(retry) == IF retry + 1 < MaxAttempts THEN "fetch" ELSE "save"

\* a mutant of Backoff: the last pass sleeps too
BackoffAlways(retry) == <<1 + retry>>

\* lines 417-419: the backoff slept after a transport error in pass retry
Backoff(retry) == IF retry < 2 THEN <<1 + retry>> ELSE <<>>

\* a mutant of ContentOf: the text of the container is not assigned
ContentOfUnassigned(doc, fullContent) == fullContent

\* lines 463-471: fullContent after a page was parsed
ContentOf(doc, fullContent) ==
    IF doc.container THEN ExtractContent(doc) ELSE fullContent

\* line 278: the listing response is read on
ListingAccepted(status) == status = StatusOK

\* a mutant of Collected: the article is appended whether or not it was saved
CollectedAnyway(allNews, newsArticle, saved) == Append(allNews, newsArticle)

\* lines 492-497: allNews after saveArticleToFirestore returned
Collected(allNews, newsArticle, saved) ==
    IF saved THEN Append(allNews, newsArticle) ELSE allNews

\* mutants of AfterItem: the items after the first one are skipped; the crawl
\* returns after an item
AfterItemSkip(i, nItems) == "pageEnd"
AfterItemStop(i, nItems) == IF i + 1 < nItems THEN "returned" ELSE "pageEnd"

\* lines 327, 500: where Each goes once the callback returned for item i
AfterItem(i, nItems) == IF i + 1 < nItems THEN "item" ELSE "pageEnd"

\* a mutant of AfterLookupError: a failed read counts as "not found"
AfterLookupErrorAsNew(exists) == IF exists THEN "itemEnd" ELSE "save"

\* lines 385-388: where the callback goes when articleExistsInFirestore
\* returned an error, whatever it returned for exists
AfterLookupError(exists) == "itemEnd"

\* a mutant of PageSleeps: nothing is slept after the first page
PageSleepsLater(pageNum) == pageNum > 1

\* line 503: whether the crawl sleeps at the end of the iteration for pageNum
PageSleeps(pageNum) == TRUE

\* part_003 line 57: the most pages the handler calls the crawl with
MaxTriggerPages == 10

\* a mutant of LoopBound: the core stops after the pages its caller is held to
LoopBoundCapped(pages) ==
    IF pages > MaxTriggerPages THEN MaxTriggerPages ELSE pages

\* line 260: the page the loop runs up to, for pageNum := 1; pageNum <= pages
LoopBound(pages) == pages

\* the items a crawl is served: MaxServed, and for a crawl of more pages than
\* the handler asks for one for each page
ServedBound(pages) == IF pages > MaxTriggerPages THEN pages ELSE MaxServed

\* lines 253-258: the call, with its page count
StartCrawl(c) ==
    /\ run[c].pc = "idle"
    /\ \E pages \in PageCounts :
          Set(c, [IdleRun EXCEPT !.pc = "loop", !.pages = pages, !.pageNum = 1])
    /\ UNCHANGED <<store, now, obs, pure>>

\* lines 260, 505-506: the loop condition fails; return allNews, nil
LoopExit(c) ==
    /\ run[c].pc = "loop"
    /\ run[c].pageNum > LoopBound(run[c].pages)
    /\ Set(c, [run[c] EXCEPT !.pc = "returned", !.err = FALSE])
    /\ Obs(c, [obs[c] EXCEPT !.stopped = "done"])
    /\ UNCHANGED <<store, now, pure>>

\* lines 260-325: one listing page is requested, read, decoded and parsed
FetchListing(c) ==
    /\ run[c].pc = "loop"
    /\ run[c].pageNum <= LoopBound(run[c].pages)
    /\ LET r == run[c]
           break == [r EXCEPT !.pc = "returned", !.err = FALSE]
       IN  IF NewRequestFails(PageURL(r.pageNum))
           THEN /\ Set(c, [r EXCEPT !.pc = "returned", !.err = TRUE])
                /\ Obs(c, [obs[c] EXCEPT !.stopped = "request"])
           ELSE \E resp \in Responses, n \in 0..MaxItems :
                   LET o == [obs[c] EXCEPT
                                !.listingGETs = Append(@, r.pageNum),
                                !.listingStatus = resp.status,
                                !.pageDelay = FALSE, !.finished = 0]
                       stop(why) == Set(c, break) /\ Obs(c, [o EXCEPT !.stopped = why])
                       fits == obs[c].served + n <= ServedBound(r.pages)
                   IN  IF resp.transportErr THEN stop("neterr")
                       ELSE IF ~ListingAccepted(resp.status) THEN stop("status")
                       ELSE IF resp.bodyErr # "none" THEN stop(resp.bodyErr)
                       ELSE /\ fits
                            /\ Set(c, [r EXCEPT !.pc = AfterParse(n), !.nItems = n,
                                                 !.i = 0])
                            /\ Obs(c, [o EXCEPT
                                   !.served = @ + n,
                                   !.stopped = IF n = 0 THEN "empty" ELSE @,
                                   !.emptyPage = IF n = 0 THEN r.pageNum ELSE @])
    /\ UNCHANGED <<store, now, pure>>

\* lines 327-381: the callback is entered for item i; its fields are extracted
\* and validated and its URL is reconstructed
ParseItem(c) ==
    /\ run[c].pc = "item"
    /\ \E li \in ListItems : \E it \in {ExtractItem(li)} :
          LET r  == run[c]
              o  == [NoItemObs EXCEPT !.started = TRUE,
                                      !.teaser = it.summaryText,
                                      !.newsBefore = Len(r.allNews)]
              after == IF obs[c].emptyPage # 0 THEN 1 ELSE 0
          IN  IF MissingField(it)
              THEN /\ Set(c, [r EXCEPT !.pc = "itemEnd",
                                       !.item = [NoItem EXCEPT
                                           !.title = it.title,
                                           !.summaryText = it.summaryText,
                                           !.sourceText = it.sourceText,
                                           !.originalLink = it.originalLink]])
                   /\ Obs(c, [obs[c] EXCEPT !.item = [o EXCEPT !.discarded = TRUE],
                                            !.itemsAfterEmpty = @ + after])
              ELSE /\ Set(c, [r EXCEPT !.pc = "exists",
                                       !.item = [NoItem EXCEPT
                                           !.title = it.title,
                                           !.summaryText = it.summaryText,
                                           !.sourceText = it.sourceText,
                                           !.originalLink = it.originalLink,
                                           !.fullArticleURL =
                                               ReconstructURL(it.originalLink)]])
                   /\ Obs(c, [obs[c] EXCEPT !.item = o,
                                            !.itemsAfterEmpty = @ + after])
    /\ UNCHANGED <<store, now, pure>>

\* lines 383-403 and 75-117: articleExistsInFirestore and what the caller
\* makes of its result
CheckExists(c) ==
    /\ run[c].pc = "exists"
    /\ \E readOK \in BOOLEAN : \E key \in {DocID(run[c].item.fullArticleURL)} :
          LET r   == run[c]
              o   == [obs[c].item EXCEPT !.lookupKey = key]
              return(exists) == [r EXCEPT !.pc = AfterLookupError(exists)]
          IN  IF ~readOK
              THEN Set(c, return(FALSE)) /\ ObsItem(c, [o EXCEPT !.lookup = "error"])
              ELSE IF key \notin DOMAIN store
              THEN /\ Set(c, [r EXCEPT
                          !.pc = IF r.item.fullArticleURL # <<>> THEN "fetch" ELSE "save",
                          !.item.fullContent = InitialContent(r.item.summaryText),
                          !.item.retry = 0])
                   /\ ObsItem(c, [o EXCEPT !.lookup = "notFound"])
              ELSE IF ~store[key].ok
              THEN /\ Set(c, return(TRUE))
                   /\ ObsItem(c, [o EXCEPT !.lookup = "unconvertible"])
              ELSE /\ Set(c, [r EXCEPT !.pc = AfterFound(store[key].art.aiSummary)])
                   /\ ObsItem(c, [o EXCEPT !.lookup = "found",
                                           !.foundAI = store[key].art.aiSummary])
    /\ UNCHANGED <<store, now, pure>>

\* lines 393-399 and 120-152: updateArticleAISummaryToEmpty
UpdateAISummary(c) ==
    /\ run[c].pc = "update"
    /\ \E ok \in BOOLEAN : \E key \in {UpdateDocID(run[c].item.fullArticleURL)} :
          LET done == ok /\ key \in DOMAIN store
          IN  /\ store' = IF done THEN StoreUpdate(store, key) ELSE store
              /\ ObsItem(c, [obs[c].item EXCEPT
                     !.updates = @ + 1, !.updateFailed = ~done,
                     !.clearedSummary =
                         done /\ ClearsSummary(store, key, StoreUpdate(store, key)[key])])
    /\ Set(c, [run[c] EXCEPT !.pc = "itemEnd"])
    /\ UNCHANGED <<now, pure>>

\* lines 405-472: one pass of the retry loop
FetchArticle(c) ==
    /\ run[c].pc = "fetch"
    /\ LET r == run[c]
           o == obs[c].item
           retry == r.item.retry
           break == [r EXCEPT !.pc = "save"]
       IN  IF NewRequestFails(r.item.fullArticleURL)
           THEN Set(c, break) /\ ObsItem(c, [o EXCEPT !.noRequest = TRUE])
           ELSE \E resp \in Responses, doc \in ArticleDocs :
                   \E text \in {ContentOf(doc, run[c].item.fullContent)} :
                   LET got(what) == [o EXCEPT !.attempts = Append(@, what)]
                   IN  IF resp.transportErr
                       THEN /\ Set(c, [r EXCEPT !.pc = AfterTransportError(retry),
                                                 !.item.retry = retry + 1])
                            /\ ObsItem(c, [got("neterr") EXCEPT
                                   !.sleeps = @ \o Backoff(retry)])
                       ELSE IF resp.status # StatusOK
                       THEN Set(c, break) /\ ObsItem(c, got("status"))
                       ELSE IF resp.bodyErr # "none"
                       THEN Set(c, break) /\ ObsItem(c, got("bodyerr"))
                       ELSE /\ Set(c, [break EXCEPT !.item.fullContent = text])
                            /\ ObsItem(c, [got(IF doc.container THEN "container"
                                                ELSE "nocontainer")
                                              EXCEPT !.doc = <<doc>>])
    /\ UNCHANGED <<store, now, pure>>

\* lines 475-499 and 155-192: the strings are cleaned, the article is built
\* and saveArticleToFirestore writes it
SaveArticle(c) ==
    /\ run[c].pc = "save"
    /\ \E ok \in BOOLEAN :
       \E title \in {cleanUTF8String(run[c].item.title)} :
       \E summaryText \in {cleanUTF8String(run[c].item.summaryText)} :
       \E fullContent \in {cleanUTF8String(run[c].item.fullContent)} :
       \E sourceText \in {cleanUTF8String(run[c].item.sourceText)} :
       \E fullArticleURL \in {cleanUTF8String(run[c].item.fullArticleURL)} :
       \E key \in {SaveDocID(fullArticleURL)} :
          LET r  == run[c]
              it == [r.item EXCEPT !.title = title, !.summaryText = summaryText,
                                   !.fullContent = fullContent,
                                   !.sourceText = sourceText,
                                   !.fullArticleURL = fullArticleURL]
              newsArticle == Article(title, summaryText, fullContent, <<>>,
                                     sourceText, fullArticleURL, now)
              o == [obs[c].item EXCEPT !.sets = @ + 1, !.setKey = key,
                                       !.setOverExisting = key \in DOMAIN store]
          IN  /\ store' = IF ok THEN StoreSet(store, key, newsArticle) ELSE store
              /\ Set(c, [r EXCEPT !.pc = "itemEnd", !.item = it,
                                  !.allNews = Collected(@, newsArticle, ok)])
              /\ Obs(c, [obs[c] EXCEPT
                     !.item = [o EXCEPT
                         !.itemDelay = ok, !.setFailed = ~ok,
                         !.clearedSummary =
                             ok /\ ClearsSummary(store, key,
                                                 Document(newsArticle, TRUE, TRUE)),
                         !.changedCollectedAt =
                             ok /\ ChangesCollectedAt(store, key,
                                        Document(newsArticle, TRUE, TRUE))],
                     !.written = IF ok THEN Append(@, newsArticle) ELSE @])
    /\ now' = now + 1
    /\ UNCHANGED pure

\* line 500: the callback returns; Each goes on to the next item, or ends
ItemReturn(c) ==
    /\ run[c].pc = "itemEnd"
    /\ Set(c, [run[c] EXCEPT
           !.pc = AfterItem(run[c].i, run[c].nItems),
           !.i = @ + 1, !.item = NoItem])
    /\ Obs(c, [obs[c] EXCEPT !.item = NoItemObs, !.finished = @ + 1,
                             !.itemFailed = @ \/ ItemFailure(obs[c].item)])
    /\ UNCHANGED <<store, now, pure>>

\* lines 502-504: the page is logged, the crawl sleeps, pageNum++
PageEnd(c) ==
    /\ run[c].pc = "pageEnd"
    /\ Set(c, [run[c] EXCEPT !.pc = "loop", !.pageNum = @ + 1, !.nItems = 0,
                             !.i = 0])
    /\ Obs(c, [obs[c] EXCEPT !.pageDelay = PageSleeps(run[c].pageNum)])
    /\ UNCHANGED <<store, now, pure>>

\* the steps of CrawlNaverFinanceNews once it is called
Body(c) ==
    \/ LoopExit(c)
    \/ FetchListing(c)
    \/ ParseItem(c)
    \/ CheckExists(c)
    \/ UpdateAISummary(c)
    \/ FetchArticle(c)
    \/ SaveArticle(c)
    \/ ItemReturn(c)
    \/ PageEnd(c)

Step(c) == StartCrawl(c) \/ Body(c)

Next == \E c \in Single : Step(c)

Spec == Init /\ [][Next]_vars

\* every call the crawl makes returns (client.Do after its timeout at the
\* latest, lines 268 and 412; the store calls; time.Sleep), so a crawl that can
\* take a step takes one
SpecLive == Spec /\ WF_vars(Next)

(***************************************************************************)
(* The handler of POST /api/schedule/crawl.                                *)
(***************************************************************************)
StatusBadRequest == 400
StatusInternalServerError == 500

\* the values of the query parameter "pages": none, "x", "0", "-1", "10", "11"
Queries == {<<>>, <<120>>, <<48>>, <<45, 49>>, <<49, 48>>, <<49, 49>>}

\* c.Query("pages", "1"): the default stands in for a missing or empty value
Query(value) == IF value = <<>> THEN <<49>> ELSE value

\* strconv.Atoi on a short string: an optional sign, then digits only
RECURSIVE AtoiDigits(_, _)
AtoiDigits(d, n) ==
    IF d = <<>> THEN [n |-> n, err |-> FALSE]
    ELSE IF ~IsDigit(Head(d)) THEN [n |-> 0, err |-> TRUE]
    ELSE AtoiDigits(Tail(d), n * 10 + (Head(d) - 48))
Atoi(str) ==
    LET signed == str # <<>> /\ Head(str) \in {43, 45}
        digits == IF signed THEN Tail(str) ELSE str
        v      == AtoiDigits(digits, 0)
    IN  IF digits = <<>> THEN [n |-> 0, err |-> TRUE]
        ELSE IF v.err THEN v
        ELSE [n |-> IF Head(str) = 45 THEN 0 - v.n ELSE v.n, err |-> FALSE]

\* a mutant of PagesRejected: zero pages are let through
PagesRejectedBelowZero(pages) == pages < 0 \/ pages > MaxTriggerPages

\* part_003 line 57: the page counts the handler refuses
PagesRejected(pages) == pages <= 0 \/ pages > MaxTriggerPages

\* part_003 lines 47-64: the request is received, pages is parsed and checked,
\* and CrawlNaverFinanceNews is called
Trigger(c) ==
    /\ run[c].pc = "idle"
    /\ \E value \in Queries : \E parsed \in {Atoi(Query(value))} :
          LET pages == IF parsed.err THEN 1 ELSE parsed.n
              r == [IdleRun EXCEPT !.handler = TRUE, !.pagesStr = value]
          IN  IF PagesRejected(pages)
              THEN Set(c, [r EXCEPT !.pc = "answered", !.pages = pages,
                                    !.status = StatusBadRequest])
              ELSE Set(c, [r EXCEPT !.pc = "loop", !.pages = pages, !.pageNum = 1])
    /\ UNCHANGED <<store, now, obs, pure>>

\* part_003 lines 64-70: CrawlNaverFinanceNews returned; the response is sent
Respond(c) ==
    /\ run[c].pc = "returned" /\ run[c].handler
    /\ Set(c, [run[c] EXCEPT
           !.pc = "answered",
           !.status = IF run[c].err THEN StatusInternalServerError ELSE StatusOK])
    /\ UNCHANGED <<store, now, obs, pure>>

NextTrigger == \E c \in Single : Trigger(c) \/ Body(c) \/ Respond(c)

SpecTrigger == Init /\ [][NextTrigger]_vars

(***************************************************************************)
(* The crawl called directly, past the handler, with page counts the       *)
(* handler refuses.                                                        *)
(***************************************************************************)
\* -1, 0, and the counts past the last one the handler lets through
DirectPageCounts ==
    {0 - 1, 0} \cup ((MaxTriggerPages + 1)..(MaxTriggerPages + MaxBeyond))

\* lines 253-258: the call; nothing is checked of pages
StartCrawlDirect(c) ==
    /\ run[c].pc = "idle"
    /\ \E pages \in DirectPageCounts :
          Set(c, [IdleRun EXCEPT !.pc = "loop", !.pages = pages, !.pageNum = 1])
    /\ UNCHANGED <<store, now, obs, pure>>

\* what the site serves to these crawls: at most one item a page, complete
\* and with the link LinkBoth
OnePerPage ==
    \A c \in Single :
        /\ run[c].nItems <= 1
        /\ obs[c].item.started =>
               ~obs[c].item.discarded /\ run[c].item.originalLink = LinkBoth

FetchListingOfPage(c) == FetchListing(c) /\ OnePerPage'
ParseItemOfPage(c) == ParseItem(c) /\ OnePerPage'

StepDirect(c) ==
    \/ StartCrawlDirect(c)
    \/ LoopExit(c)
    \/ FetchListingOfPage(c)
    \/ ParseItemOfPage(c)
    \/ CheckExists(c)
    \/ UpdateAISummary(c)
    \/ FetchArticle(c)
    \/ SaveArticle(c)
    \/ ItemReturn(c)
    \/ PageEnd(c)

NextDirect == \E c \in Single : StepDirect(c)

SpecDirect == Init /\ [][NextDirect]_vars

(***************************************************************************)
(* Two crawls at once (the server handles each request on its own) and the *)
(* summarization server, over one store.                                   *)
(***************************************************************************)
\* line 32: the summarization server fills the aiSummary of a stored article
Summarize ==
    /\ \E key \in DOMAIN store :
          /\ store[key].ok /\ store[key].art.aiSummary = <<>>
          /\ store' = [store EXCEPT ![key] =
                          [@ EXCEPT !.art.aiSummary = SomeAISummary, !.hasAI = TRUE]]
    /\ UNCHANGED <<now, run, obs, pure>>

\* what the site serves to the two crawls: at most one page, holding one
\* complete item whose link is LinkBoth
SameListing ==
    \A c \in Crawls :
        /\ run[c].pages <= 1 /\ obs[c].served <= 1
        /\ obs[c].item.started =>
               ~obs[c].item.discarded /\ run[c].item.originalLink = LinkBoth

\* the steps that take something from the caller or from the site
StartCrawlOnOne(c) == StartCrawl(c) /\ SameListing'
FetchListingOfOne(c) == FetchListing(c) /\ SameListing'
ParseItemOfOne(c) == ParseItem(c) /\ SameListing'

StepConcurrent(c) ==
    \/ StartCrawlOnOne(c)
    \/ LoopExit(c)
    \/ FetchListingOfOne(c)
    \/ ParseItemOfOne(c)
    \/ CheckExists(c)
    \/ UpdateAISummary(c)
    \/ FetchArticle(c)
    \/ SaveArticle(c)
    \/ ItemReturn(c)
    \/ PageEnd(c)

NextConcurrent ==
    \/ \E c \in Crawls : StepConcurrent(c)
    \/ Summarize

SpecConcurrent == Init /\ [][NextConcurrent]_vars

(***************************************************************************)
(* Two crawls one after the other over a listing that does not change, on  *)
(* a store that starts empty and has no other writer.                      *)
(***************************************************************************)
\* the items of the listing: those with a title, a summary, a source and a
\* link
ListedItems == {li \in ListItems : ~MissingField(ExtractItem(li))}

\* the pages of the listing, each a sequence of items
ListedPages == UNION {[1..n -> ListedItems] : n \in 0..MaxItems}
RECURSIVE TotalItems(_)
TotalItems(pages) ==
    IF pages = <<>> THEN 0 ELSE Len(Head(pages)) + TotalItems(Tail(pages))
Listings ==
    { pages \in UNION {[1..n -> ListedPages] : n \in 1..MaxPages} :
          TotalItems(pages) <= MaxServed }

\* the listing is held in arg
InitRecrawl ==
    /\ store = EmptyStore
    /\ now = 1
    /\ run = [c \in Crawls |-> IdleRun]
    /\ obs = [c \in Crawls |-> IdleObs]
    /\ arg \in Listings /\ res = <<>> /\ fn = "none"

\* the first crawl has returned and every item of the listing was written
FirstRunPersistedAll ==
    run[1].pc = "returned" /\ Len(obs[1].written) = TotalItems(arg)

\* a listing page that was read and parsed is the page of the listing
PageFromListing(c) ==
    /\ run[c].pc = "item" => run[c].nItems = Len(arg[run[c].pageNum])
    /\ obs[c].stopped = "empty" => arg[run[c].pageNum] = <<>>

\* lines 335-362 on the items of the listing
Extracted == [li \in ListedItems |-> ExtractItem(li)]

\* the item the callback is entered for is the item of the listing
ItemFromListing(c) ==
    \E li \in {arg[run[c].pageNum][run[c].i + 1]} :
        /\ run[c].item.title = Extracted[li].title
        /\ run[c].item.summaryText = Extracted[li].summaryText
        /\ run[c].item.sourceText = Extracted[li].sourceText
        /\ run[c].item.originalLink = Extracted[li].originalLink

\* the crawl is called for the pages of the listing, the second crawl once the
\* first one has written every item
StartCrawlOver(c) ==
    /\ c = 2 => FirstRunPersistedAll
    /\ StartCrawl(c)
    /\ run'[c].pages = Len(arg)
FetchListingOver(c) == FetchListing(c) /\ PageFromListing(c)'
ParseItemOver(c) == ParseItem(c) /\ ItemFromListing(c)'

StepRecrawl(c) ==
    \/ StartCrawlOver(c)
    \/ LoopExit(c)
    \/ FetchListingOver(c)
    \/ ParseItemOver(c)
    \/ CheckExists(c)
    \/ UpdateAISummary(c)
    \/ FetchArticle(c)
    \/ SaveArticle(c)
    \/ ItemReturn(c)
    \/ PageEnd(c)

NextRecrawl == \E c \in Crawls : StepRecrawl(c)

SpecRecrawl == InitRecrawl /\ [][NextRecrawl]_vars

(***************************************************************************)
(* The sanitizer and the URL reconstruction on their own: the input is     *)
(* drawn by the initial state and the function is applied to it.           *)
(***************************************************************************)
\* the byte strings of length at most n over the bytes of B
RECURSIVE StringsOver(_, _)
StringsOver(B, n) ==
    IF n = 0 THEN {<<>>}
    ELSE LET shorter == StringsOver(B, n - 1)
         IN  shorter \cup {Append(t, b) : t \in shorter, b \in B}

\* "a"; the lead bytes of a 2-, 3- and 4-byte encoding; continuation bytes;
\* 0xEF 0xBF 0xBD, the encoding of U+FFFD; 0xED, which starts the surrogates;
\* 0xFF, which no encoding holds
SampleBytes == {97, 195, 169, 128, 239, 191, 189, 240, 237, 255}

CleanInputs == StringsOver(SampleBytes, MaxLen)

\* "article_id=7", "article_id=", "office_id=3", "office_id=", "4", "&", "x"
Fragments ==
    { ArticleIDKey \o <<55>>, ArticleIDKey, OfficeIDKey \o <<51>>, OfficeIDKey,
      <<52>>, <<38>>, <<120>> }

\* the concatenations of at most n fragments
RECURSIVE LinksOf(_)
LinksOf(n) ==
    IF n = 0 THEN {<<>>}
    ELSE LET shorter == LinksOf(n - 1)
         IN  shorter \cup {t \o f : t \in shorter, f \in Fragments}

UrlInputs == LinksOf(MaxFrags)

IdleCrawl ==
    /\ store = EmptyStore
    /\ now = 1
    /\ run = [c \in Crawls |-> IdleRun]
    /\ obs = [c \in Crawls |-> IdleObs]

InitClean == IdleCrawl /\ arg \in CleanInputs /\ res = <<>> /\ fn = "none"

\* cleanUTF8String(arg)
CleanOnce ==
    /\ fn = "none"
    /\ res' = <<cleanUTF8String(arg)>>
    /\ fn' = "clean"
    /\ UNCHANGED <<arg, crawl>>

\* cleanUTF8String(cleanUTF8String(arg))
CleanAgain ==
    /\ fn = "clean"
    /\ res' = Append(res, cleanUTF8String(res[1]))
    /\ fn' = "cleanAgain"
    /\ UNCHANGED <<arg, crawl>>

NextClean == CleanOnce \/ CleanAgain

SpecClean == InitClean /\ [][NextClean]_vars

(***************************************************************************)
(* The charset of a response (lines 291-310 and 436-454) on its own.       *)
(***************************************************************************)
\* "charset=" and "utf-8"
CharsetKey == <<99, 104, 97, 114, 115, 101, 116, 61>>
DefaultCharset == <<117, 116, 102, 45, 56>>

\* strings.Index(s, sep) from byte i on: the first place of sep, 0 for none
RECURSIVE IndexFrom(_, _, _)
IndexFrom(s, sep, i) ==
    IF i + Len(sep) - 1 > Len(s) THEN 0
    ELSE IF MatchesAt(s, i, sep) THEN i
    ELSE IndexFrom(s, sep, i + 1)

\* strings.Contains
Contains(s, sep) == IndexFrom(s, sep, 1) # 0

\* strings.Split(s, sep), for a non-empty sep
RECURSIVE Split(_, _)
Split(s, sep) ==
    LET at == IndexFrom(s, sep, 1)
    IN  IF at = 0 THEN <<s>>
        ELSE <<SubSeq(s, 1, at - 1)>> \o Split(From(s, at + Len(sep)), sep)

\* strings.ToLower on ASCII
ToLower(s) ==
    [i \in 1..Len(s) |-> IF s[i] >= 65 /\ s[i] <= 90 THEN s[i] + 32 ELSE s[i]]

\* htmlindex.Get: the labels it knows, of which the model holds "utf-8",
\* "utf8" and "euc-kr"
KnownLabels == {<<117, 116, 102, 45, 56>>, <<117, 116, 102, 56>>, <<101, 117, 99, 45, 107, 114>>}
HtmlindexGet(name) == name \in KnownLabels

\* lines 291-310: the charset of a listing response and the reader the parser
\* is given: the bytes as they are, or a decoder over them
ListingReader(contentType) ==
    LET charset ==
            IF Contains(contentType, CharsetKey)
            THEN LET parts == Split(contentType, CharsetKey)
                 IN  IF Len(parts) > 1 THEN ToLower(TrimSpace(parts[2]))
                     ELSE DefaultCharset
            ELSE DefaultCharset
    IN  [ charset |-> charset,
          reader  |-> IF charset # DefaultCharset /\ charset # <<>>
                          /\ HtmlindexGet(charset)
                      THEN "decoder" ELSE "bytes" ]

\* a mutant of ArticleReader: articleCharset is not compared with "utf-8"
ArticleReaderAnyKnown(articleContentType) ==
    LET articleCharset ==
            IF Contains(articleContentType, CharsetKey)
            THEN LET parts == Split(articleContentType, CharsetKey)
                 IN  IF Len(parts) > 1 THEN ToLower(TrimSpace(parts[2]))
                     ELSE DefaultCharset
            ELSE DefaultCharset
    IN  [ charset |-> articleCharset,
          reader  |-> IF articleCharset # <<>> /\ HtmlindexGet(articleCharset)
                      THEN "decoder" ELSE "bytes" ]

\* lines 436-454: the same for an article response
ArticleReader(articleContentType) ==
    LET articleCharset ==
            IF Contains(articleContentType, CharsetKey)
            THEN LET parts == Split(articleContentType, CharsetKey)
                 IN  IF Len(parts) > 1 THEN ToLower(TrimSpace(parts[2]))
                     ELSE DefaultCharset
            ELSE DefaultCharset
    IN  [ charset |-> articleCharset,
          reader  |-> IF articleCharset # DefaultCharset /\ articleCharset # <<>>
                          /\ HtmlindexGet(articleCharset)
                      THEN "decoder" ELSE "bytes" ]

\* the Content-Type headers of the model: nothing or "text/html; ", then
\* nothing, "charset=" or "Charset=", then a name, then nothing or a second
\* parameter
TypeParts == {<<>>, <<116, 101, 120, 116, 47, 104, 116, 109, 108, 59, 32>>}
KeyParts == {<<>>, CharsetKey, <<67, 104, 97, 114, 115, 101, 116, 61>>}
NameParts ==
    { <<>>, <<117, 116, 102, 45, 56>>, <<85, 84, 70, 45, 56>>, <<117, 116, 102, 56>>, <<101, 117, 99, 45, 107, 114>>, <<69, 85, 67, 45, 75, 82>>, <<32, 101, 117, 99, 45, 107, 114, 32>>,
      <<98, 111, 103, 117, 115>> }
TailParts == {<<>>, <<59, 32, 99, 104, 97, 114, 115, 101, 116, 61, 120>>, <<59, 32, 98, 111, 117, 110, 100, 97, 114, 121, 61, 120>>}
ContentTypes ==
    { t \o k \o n \o e : t \in TypeParts, k \in KeyParts, n \in NameParts,
                         e \in TailParts }

InitCharset ==
    IdleCrawl /\ arg \in ContentTypes /\ res = <<>> /\ fn = "none"

\* the header arg on a listing response
ResolveListing ==
    /\ fn = "none"
    /\ res' = <<ListingReader(arg)>>
    /\ fn' = "listing"
    /\ UNCHANGED <<arg, crawl>>

\* the header arg on an article response
ResolveArticle ==
    /\ fn = "listing"
    /\ res' = Append(res, ArticleReader(arg))
    /\ fn' = "charset"
    /\ UNCHANGED <<arg, crawl>>

NextCharset == ResolveListing \/ ResolveArticle

SpecCharset == InitCharset /\ [][NextCharset]_vars

\* hrefs whose canonical URL has n bytes and ends in the byte last
LongLink(n, last) ==
    <<47>> \o [i \in 1..(n - Len(SiteOrigin) - 2) |-> 97] \o <<last>>

\* "/a?b", "/a.b", "/a_b", "/a:b#c%d&e=f", LinkBoth, and hrefs whose URL is
\* one byte short of MaxDocIDLen up to MaxOver bytes over it, ending in "."
\* or in "x"
KeyLinks ==
    { <<47, 97, 63, 98>>, <<47, 97, 46, 98>>, <<47, 97, 95, 98>>,
      <<47, 97, 58, 98, 35, 99, 37, 100, 38, 101, 61, 102>>, LinkBoth }
        \cup { LongLink(n, last) :
                   n \in (MaxDocIDLen - 1)..(MaxDocIDLen + MaxOver),
                   last \in {46, 120} }

KeyInputs == {ReconstructURL(l) : l \in KeyLinks}

InitKey ==
    IdleCrawl /\ arg \in KeyInputs \X KeyInputs /\ res = <<>> /\ fn = "none"

\* the keys of the three store helpers for the URL arg[1], and the key of the
\* lookup for the URL arg[2]
ComputeKeys ==
    /\ fn = "none"
    /\ res' = <<DocID(arg[1]), UpdateDocID(arg[1]), SaveDocID(arg[1]), DocID(arg[2])>>
    /\ fn' = "keys"
    /\ UNCHANGED <<arg, crawl>>

NextKey == ComputeKeys

SpecKey == InitKey /\ [][NextKey]_vars

InitUrl == IdleCrawl /\ arg \in UrlInputs /\ res = <<>> /\ fn = "none"

\* lines 371-381 applied to the href arg
Reconstruct ==
    /\ fn = "none"
    /\ res' = <<ReconstructURL(arg)>>
    /\ fn' = "url"
    /\ UNCHANGED <<arg, crawl>>

\* the same href is met again (a later item, a later run)
ReconstructAgain ==
    /\ fn = "url"
    /\ res' = Append(res, ReconstructURL(arg))
    /\ fn' = "urlAgain"
    /\ UNCHANGED <<arg, crawl>>

NextUrl == Reconstruct \/ ReconstructAgain

SpecUrl == InitUrl /\ [][NextUrl]_vars


(***************************************************************************)
(* The claims.                                                             *)
(***************************************************************************)
It(c) == obs[c].item
Last(q) == q[Len(q)]

\* the article fetch of the item is over
FetchOver(c) == run[c].pc = "save" \/ (run[c].pc = "itemEnd" /\ It(c).sets > 0)

\* the article fetch of the item ended without a body container
NoContainer(c) ==
    /\ FetchOver(c)
    /\ It(c).attempts = <<>> \/ Last(It(c).attempts) # "container"

\* C1: a full-overwrite write (Set) is issued for a store key only if the
\* store holds no document under that key at that moment, and no Set is
\* issued for an item whose lookup found a document.
SetOnlyForNewKey ==
    \A c \in Single :
        /\ It(c).sets > 0 => ~It(c).setOverExisting
        /\ It(c).lookup \in {"found", "unconvertible"} => It(c).sets = 0

\* the lookup of the item found an article with an empty AISummary
FoundEmpty(c) == It(c).lookup = "found" /\ It(c).foundAI = <<>>
\* such an item issues one Update and nothing else
FoundEmptyUpdatesOnce ==
    \A c \in Single :
        FoundEmpty(c) =>
            /\ run[c].pc \in {"update", "itemEnd"}
            /\ It(c).updates = (IF run[c].pc = "itemEnd" THEN 1 ELSE 0)
            /\ It(c).sets = 0
            /\ It(c).attempts = <<>> /\ ~It(c).noRequest
            /\ Len(run[c].allNews) = It(c).newsBefore
\* the step after such an item is the next item of the page, or the page end
FoundEmptyGoesOn ==
    \A c \in Single :
        (FoundEmpty(c) /\ run[c].pc = "itemEnd" /\ run'[c] # run[c]) =>
            /\ run'[c].i = run[c].i + 1
            /\ run'[c].pc = IF run[c].i + 1 < run[c].nItems THEN "item" ELSE "pageEnd"
            /\ run'[c].allNews = run[c].allNews
            /\ store' = store
\* C2: an item whose lookup finds an article with an empty AISummary issues
\* exactly one Update of aiSummary, no Set and no article GET, adds nothing to
\* allNews, and the callback returns so that Each goes on with the next item;
\* the same when the Update fails.
ExistingEmptySummary == []FoundEmptyUpdatesOnce /\ [][FoundEmptyGoesOn]_vars
\* the Update of such an item failed, and the page holds a next item
ExistingEmptySummaryWitness ==
    \E c \in Single :
        /\ FoundEmpty(c) /\ run[c].pc = "itemEnd"
        /\ It(c).updates = 1 /\ It(c).updateFailed
        /\ run[c].i + 1 < run[c].nItems

\* C3: an item whose lookup finds an article with a non-empty AISummary
\* issues no Set, no Update and no article GET: the callback returns at once.
ExistingSummarySkipped ==
    \A c \in Single :
        (It(c).lookup = "found" /\ It(c).foundAI # <<>>) =>
            /\ run[c].pc = "itemEnd"
            /\ It(c).updates = 0 /\ It(c).sets = 0
            /\ It(c).attempts = <<>> /\ ~It(c).noRequest
            /\ Len(run[c].allNews) = It(c).newsBefore
ExistingSummarySkippedWitness ==
    \E c \in Single :
        /\ It(c).lookup = "found" /\ It(c).foundAI = SomeAISummary
        /\ run[c].pc = "itemEnd"

\* C4: an item for which an article request is built makes between 1 and 3 GET
\* attempts; every attempt but the last ended in a transport error, so no
\* attempt follows a response (whatever its status or body); an item whose
\* request cannot be built makes none.
AttemptsBounded ==
    \A c \in Single :
        LET a == It(c).attempts
        IN  /\ Len(a) <= 3
            /\ \A k \in 1..(Len(a) - 1) : a[k] = "neterr"
            /\ run[c].pc = "fetch" =>
                   /\ Len(a) = run[c].item.retry /\ Len(a) < 3
                   /\ \A k \in 1..Len(a) : a[k] = "neterr"
            /\ (FetchOver(c) /\ ~It(c).noRequest) => Len(a) >= 1
            /\ It(c).noRequest => a = <<>>
            /\ a # <<>> => It(c).lookup = "notFound"
\* three transport errors in a row, and the fetch is over
AttemptsBoundedWitness ==
    \E c \in Single :
        /\ It(c).attempts = <<"neterr", "neterr", "neterr">>
        /\ run[c].pc = "save"

\* C5: when the article fetch ends without a body container (three transport
\* errors, a status other than 200, an unreadable body, a page without the
\* container, or no request at all), the Set is still issued, and the content
\* handed to it, which is the content of the record unless the store rejects
\* the write, is the sanitized teaser of the listing.
FallbackToTeaser ==
    \A c \in Single :
        /\ (NoContainer(c) /\ run[c].pc = "save") =>
               run[c].item.fullContent = It(c).teaser
        /\ (NoContainer(c) /\ run[c].pc = "itemEnd") =>
               /\ It(c).sets = 1
               /\ run[c].item.fullContent = cleanUTF8String(It(c).teaser)
               /\ ~It(c).setFailed =>
                      /\ It(c).setKey \in DOMAIN store
                      /\ store[It(c).setKey].art.content
                             = cleanUTF8String(It(c).teaser)
                      /\ Last(run[c].allNews).content
                             = cleanUTF8String(It(c).teaser)
        /\ (It(c).lookup = "notFound" /\ run[c].pc = "itemEnd") => It(c).sets = 1
\* three transport errors, and the record holds "s " for the teaser "s\xFF"
FallbackToTeaserWitness ==
    \E c \in Single :
        /\ It(c).attempts = <<"neterr", "neterr", "neterr">>
        /\ run[c].pc = "itemEnd" /\ ~It(c).setFailed
        /\ It(c).teaser = <<115, 255>>
        /\ store[It(c).setKey].art.content = <<115, 32>>

\* the sanitized text of the container of the page the item was served
BodyOf(c) == cleanUTF8String(ExtractContent(It(c).doc[1]))

EmptyListingStops ==
    \A c \in Single :
        obs[c].emptyPage # 0 =>
            /\ run[c].pc = "returned"
            /\ \A k \in 1..Len(obs[c].listingGETs) :
                   obs[c].listingGETs[k] <= obs[c].emptyPage
            /\ obs[c].itemsAfterEmpty = 0
            /\ ~It(c).started
\* page 1 of 2 was empty
EmptyListingStopsWitness ==
    \E c \in Single :
        /\ obs[c].emptyPage = 1 /\ run[c].pages = 2
        /\ obs[c].listingGETs = <<1>>

\* which of the four extracted fields of an item are empty
Empty(it) ==
    <<it.title = <<>>, it.summaryText = <<>>, it.sourceText = <<>>,
      it.originalLink = <<>>>>

\* C8: an item with an empty title, summary, source or link is discarded: no
\* lookup, no article GET, no Update and no Set is issued for it, nothing is
\* added to allNews, and no article of allNews has an empty one of these.
IncompleteDiscarded ==
    \A c \in Single :
        /\ (It(c).started /\ TRUE \in {Empty(run[c].item)[k] : k \in 1..4}) =>
               /\ run[c].pc = "itemEnd" /\ It(c).discarded
               /\ It(c).lookup = "none" /\ It(c).lookupKey = <<>>
               /\ It(c).attempts = <<>> /\ ~It(c).noRequest
               /\ It(c).updates = 0 /\ It(c).sets = 0
               /\ Len(run[c].allNews) = It(c).newsBefore
        /\ \A k \in 1..Len(run[c].allNews) :
               LET a == run[c].allNews[k]
               IN  a.title # <<>> /\ a.summary # <<>> /\ a.source # <<>> /\ a.url # <<>>
\* only the source is missing: the <dd> holds a teaser and no span.press
IncompleteDiscardedWitness ==
    \E c \in Single :
        /\ It(c).started /\ It(c).discarded
        /\ Empty(run[c].item) = <<FALSE, FALSE, TRUE, FALSE>>


\* the digit strings d with s = pre \o key \o d \o post, where post starts with
\* no digit and key is followed by a digit nowhere in pre \o key but at its end
IDsOf(key, s) ==
    { SubSeq(s, a, b) : <<a, b>> \in
        { p \in (1..Len(s)) \X (1..Len(s)) :
            /\ p[1] <= p[2]
            /\ p[1] > Len(key)
            /\ SubSeq(s, p[1] - Len(key), p[1] - 1) = key
            /\ \A k \in p[1]..p[2] : IsDigit(s[k])
            /\ p[2] = Len(s) \/ ~IsDigit(s[p[2] + 1])
            /\ \A q \in (Len(key) + 1)..(p[1] - 1) :
                   ~(SubSeq(s, q - Len(key), q - 1) = key /\ IsDigit(s[q])) } }

\* C9: the canonical URL is NaverArticleBaseURL/officeID/articleID when the
\* href holds "article_id=" and "office_id=" each followed by digits (the
\* first such place, all its digits), and "https://finance.naver.com" followed
\* by the href as it is otherwise; the same href gives the same URL again.
CanonicalURL ==
    fn \in {"url", "urlAgain"} =>
        LET aids == IDsOf(ArticleIDKey, arg)
            oids == IDsOf(OfficeIDKey, arg)
        IN  /\ (aids # {} /\ oids # {}) =>
                   \E a \in aids, o \in oids :
                       res[1] = NaverArticleBaseURL \o <<47>> \o o \o <<47>> \o a
            /\ (aids = {} \/ oids = {}) => res[1] = SiteOrigin \o arg
            /\ Cardinality(aids) <= 1 /\ Cardinality(oids) <= 1
            /\ fn = "urlAgain" => res[2] = res[1]
\* "article_id=7&office_id=3" gives ".../article/3/7"
CanonicalURLWitness ==
    /\ fn = "urlAgain"
    /\ arg = ArticleIDKey \o <<55, 38>> \o OfficeIDKey \o <<51>>
    /\ res[1] = NaverArticleBaseURL \o <<47, 51, 47, 55>>

\* well-formed UTF-8 byte sequences (The Unicode Standard, table 3-7)
WellFormedRune(q) ==
    LET cont(b) == b >= 128 /\ b <= 191
    IN  \/ Len(q) = 1 /\ q[1] <= 127
        \/ Len(q) = 2 /\ q[1] >= 194 /\ q[1] <= 223 /\ cont(q[2])
        \/ /\ Len(q) = 3 /\ cont(q[3])
           /\ \/ q[1] = 224 /\ q[2] >= 160 /\ q[2] <= 191
              \/ q[1] >= 225 /\ q[1] <= 236 /\ cont(q[2])
              \/ q[1] = 237 /\ q[2] >= 128 /\ q[2] <= 159
              \/ q[1] >= 238 /\ q[1] <= 239 /\ cont(q[2])
        \/ /\ Len(q) = 4 /\ cont(q[3]) /\ cont(q[4])
           /\ \/ q[1] = 240 /\ q[2] >= 144 /\ q[2] <= 191
              \/ q[1] >= 241 /\ q[1] <= 243 /\ cont(q[2])
              \/ q[1] = 244 /\ q[2] >= 128 /\ q[2] <= 143
RECURSIVE WellFormed(_)
WellFormed(s) ==
    \/ s = <<>>
    \/ \E k \in 1..(IF Len(s) < 4 THEN Len(s) ELSE 4) :
           WellFormedRune(SubSeq(s, 1, k)) /\ WellFormed(SubSeq(s, k + 1, Len(s)))

\* C10: cleanUTF8String returns well-formed UTF-8 for every byte string,
\* returns a well-formed string unchanged, and applied to its own result
\* returns it unchanged.
SanitizerIdempotent ==
    /\ fn \in {"clean", "cleanAgain"} =>
           /\ WellFormed(res[1])
           /\ WellFormed(arg) => res[1] = arg
    /\ fn = "cleanAgain" => res[2] = res[1]
\* "a\xFF" followed by the two bytes of U+00E9: the invalid byte becomes " "
SanitizerIdempotentWitness ==
    /\ fn = "cleanAgain"
    /\ arg = <<97, 255, 195, 169>>
    /\ res = <<<<97, 32, 195, 169>>, <<97, 32, 195, 169>>>>

\* C11: allNews, which every return statement returns, holds exactly the
\* articles whose Set succeeded in this run, in the order of the writes; an
\* item that was discarded, found in the store, whose lookup failed or whose
\* Set failed adds nothing to it.
ResultIsWhatWasWritten ==
    \A c \in Single :
        /\ run[c].allNews = obs[c].written
        /\ (/\ run[c].pc = "itemEnd"
            /\ \/ It(c).discarded
               \/ It(c).lookup \in {"found", "unconvertible", "error"}
               \/ It(c).setFailed) =>
               Len(run[c].allNews) = It(c).newsBefore
        /\ (run[c].pc = "itemEnd" /\ It(c).sets = 1 /\ ~It(c).setFailed) =>
               /\ Len(run[c].allNews) = It(c).newsBefore + 1
               /\ Last(run[c].allNews) = store[It(c).setKey].art
\* the crawl returned one article though it was served two items
ResultIsWhatWasWrittenWitness ==
    \E c \in Single :
        /\ run[c].pc = "returned" /\ obs[c].served = 2
        /\ Len(run[c].allNews) = 1 /\ obs[c].itemFailed

\* C12: the crawl returns a non-nil error exactly when the page loop was left
\* because a listing request could not be built, or a listing GET ended in a
\* transport error or in a status that was not accepted.
ErrorIffPageFailure ==
    \A c \in Single :
        run[c].pc = "returned" =>
            (run[c].err <=> obs[c].stopped \in {"request", "neterr", "status"})

\* the requests a crawl has made: listing pages and, for the item in hand,
\* article attempts
Requests(c) == Len(obs[c].listingGETs) + Len(It(c).attempts)
\* where the crawl is in the page and in the item
SequentialState ==
    \A c \in Single :
        LET r == run[c]
            o == obs[c]
        IN  /\ \A k \in 1..Len(o.listingGETs) : o.listingGETs[k] = k
            /\ r.pc = "loop" => It(c) = NoItemObs
            /\ r.pc = "item" => It(c) = NoItemObs /\ o.finished = r.i /\ r.i < r.nItems
            /\ r.pc \in {"exists", "update", "fetch", "save", "itemEnd"} =>
                   It(c).started /\ o.finished = r.i /\ r.i < r.nItems
            /\ r.pc = "pageEnd" =>
                   It(c) = NoItemObs /\ o.finished = r.nItems /\ r.nItems > 0
            /\ r.pc \in {"item", "exists", "update", "fetch", "save", "itemEnd",
                         "pageEnd"} => Len(o.listingGETs) = r.pageNum
\* what a step of the crawl may do
SequentialStep ==
    \A c \in Single :
        /\ Requests(c)' <= Requests(c) + 1
        /\ obs'[c].listingGETs # obs[c].listingGETs =>
               /\ run[c].pc = "loop" /\ It(c) = NoItemObs
               /\ obs'[c].listingGETs = Append(obs[c].listingGETs, run[c].pageNum)
               /\ It(c)' = NoItemObs
        /\ (run'[c].pc = "loop" /\ run[c].pc # "loop") =>
               \/ run[c].pc = "idle" /\ run'[c].pageNum = 1
               \/ /\ run[c].pc = "pageEnd" /\ obs[c].finished = run[c].nItems
                  /\ run'[c].pageNum = run[c].pageNum + 1
        /\ (It(c)'.started /\ ~It(c).started) =>
               run[c].pc = "item" /\ obs[c].finished = run[c].i
        /\ It(c)'.attempts # It(c).attempts =>
               \/ run[c].pc = "fetch" /\ Len(It(c)'.attempts) = Len(It(c).attempts) + 1
               \/ run[c].pc = "itemEnd" /\ It(c)' = NoItemObs

\* C14: a crawl works on one thing at a time: a step makes at most one
\* request; the listing pages are requested in the order 1, 2, ...; page p+1
\* is requested only when every item of page p has finished; item i+1 starts
\* only when item i has finished, its article attempts and store calls done.
Sequential == []SequentialState /\ [][SequentialStep]_vars
\* the second item of page 2 is in hand
SequentialWitness ==
    \E c \in Single :
        /\ obs[c].listingGETs = <<1, 2>> /\ run[c].pc = "fetch"
        /\ run[c].i = 1 /\ run[c].item.retry = 1

\* an item-level failure leaves the run going
FailureState ==
    \A c \in Single :
        /\ obs[c].itemFailed \/ ItemFailure(It(c)) => ~run[c].err
        /\ run[c].pc = "returned" =>
               obs[c].stopped \in {"request", "neterr", "status", "read", "parse",
                                   "empty", "done"}
        /\ obs[c].stopped = "done" => run[c].pageNum > run[c].pages
\* the steps after an item-level failure
FailureStep ==
    \A c \in Single :
        /\ (run[c].pc = "itemEnd" /\ ItemFailure(It(c)) /\ run'[c] # run[c]) =>
               /\ run'[c].i = run[c].i + 1
               /\ run'[c].pc = IF run[c].i + 1 < run[c].nItems THEN "item" ELSE "pageEnd"
               /\ run'[c].pageNum = run[c].pageNum /\ run'[c].pages = run[c].pages
        /\ (run[c].pc = "item" /\ run'[c] # run[c]) => It(c)'.started
        /\ (run[c].pc = "pageEnd" /\ run'[c] # run[c]) =>
               run'[c].pc = "loop" /\ run'[c].pageNum = run[c].pageNum + 1
        /\ (run[c].pc = "loop" /\ run[c].pageNum <= run[c].pages
                /\ run'[c] # run[c]) =>
               obs'[c].listingGETs = Append(obs[c].listingGETs, run[c].pageNum)

\* C18: after an item is discarded, or its lookup fails, or its article fetch
\* gives no body, or its Set fails, the callback returns and Each goes on with
\* the next item of the page; after the last item the next page is requested,
\* up to pages; the crawl returns only for a page-level reason.
ItemFailureGoesOn == []FailureState /\ [][FailureStep]_vars
\* page 2 was requested after a failure on page 1, and the loop ran to its end
ItemFailureGoesOnWitness ==
    \E c \in Single :
        /\ obs[c].itemFailed /\ obs[c].stopped = "done"
        /\ obs[c].listingGETs = <<1, 2>> /\ obs[c].served = 3

\* C19: a listing page is requested at most once; after a transport error or
\* a status outside 200..299 no item of the page is processed and no page is
\* requested again or after it; a response with a status in 200..299 is read
\* and parsed.
ListingOnce ==
    \A c \in Single :
        /\ \A j, k \in 1..Len(obs[c].listingGETs) :
               obs[c].listingGETs[j] = obs[c].listingGETs[k] => j = k
        /\ obs[c].stopped \in {"neterr", "status"} =>
               /\ run[c].pc = "returned" /\ ~It(c).started
               /\ Last(obs[c].listingGETs) = run[c].pageNum
        /\ (obs[c].listingStatus >= 200 /\ obs[c].listingStatus <= 299) =>
               obs[c].stopped # "status"

\* C20: in the article fetch a sleep of k seconds follows the k-th attempt
\* when it ended in a transport error, for k = 1 and k = 2, before the next
\* attempt is made; nothing is slept after the third attempt, nor after an
\* attempt that got a response.
BackoffSchedule ==
    \A c \in Single :
        LET a == It(c).attempts
            failed == Cardinality({k \in 1..Len(a) : a[k] = "neterr"})
        IN  /\ It(c).sleeps = [k \in 1..(IF failed < 2 THEN failed ELSE 2) |-> k]
            /\ run[c].pc = "fetch" => Len(It(c).sleeps) = Len(a)
\* three transport errors: 1 s and 2 s were slept, and nothing after the third
BackoffScheduleWitness ==
    \E c \in Single :
        /\ It(c).attempts = <<"neterr", "neterr", "neterr">>
        /\ It(c).sleeps = <<1, 2>>

\* the integer a value of "pages" stands for: its digits after an optional
\* sign, when it is made of that and nothing else
IsInteger(q) ==
    \E k \in 0..1 :
        /\ Len(q) > k
        /\ k = 1 => q[1] \in {43, 45}
        /\ \A j \in (k + 1)..Len(q) : q[j] >= 48 /\ q[j] <= 57
RECURSIVE Magnitude(_)
Magnitude(q) ==
    IF q = <<>> THEN 0
    ELSE IF q[Len(q)] \in {43, 45} THEN 0
    ELSE (q[Len(q)] - 48) + 10 * Magnitude(SubSeq(q, 1, Len(q) - 1))
Requested(q) ==
    IF ~IsInteger(q) THEN 1
    ELSE IF q[1] = 45 THEN 0 - Magnitude(q) ELSE Magnitude(q)

BothWrote(c, d) ==
    /\ c # d
    /\ run[c].pc = "itemEnd" /\ run[d].pc = "itemEnd"
    /\ It(c).lookup = "notFound" /\ It(d).lookup = "notFound"
    /\ It(c).sets = 1 /\ ~It(c).setFailed
    /\ It(d).sets = 1 /\ ~It(d).setFailed
    /\ It(c).setKey = It(d).setKey
\* the article a crawl wrote last; time.Now() orders the writes
Wrote(c) == Last(obs[c].written)

\* C15: two crawls at once over the same item can both find nothing under the
\* key of its URL and both Set it; the store then holds one document under
\* that key, the one of the later Set (with the aiSummary the summarization
\* server may have filled in since).
LastWriteWins ==
    \A c, d \in Crawls :
        (BothWrote(c, d) /\ Wrote(c).collectedAt < Wrote(d).collectedAt) =>
            /\ It(d).setOverExisting /\ ~It(c).setOverExisting
            /\ It(d).setKey \in DOMAIN store
            /\ [store[It(d).setKey].art EXCEPT !.aiSummary = <<>>] = Wrote(d)
            /\ Wrote(c).url = Wrote(d).url
\* both crawls have written, the second over the first
LastWriteWinsWitness ==
    /\ BothWrote(1, 2)
    /\ Wrote(1).collectedAt = 1 /\ Wrote(2).collectedAt = 2
    /\ store[It(2).setKey].art = Wrote(2)
    /\ Cardinality(DOMAIN store) = 1

\* C16: no Update and no Set of a crawl turns a non-empty aiSummary of a
\* stored document into "", whatever the summarization server and another
\* crawl do in between.
SummaryNeverCleared == \A c \in Crawls : ~It(c).clearedSummary

\* C17: no Set of a crawl changes the collectedAt of a stored document.
CollectedAtNeverChanges == \A c \in Crawls : ~It(c).changedCollectedAt

\* C21: when the callback has returned for an item that is not the last of
\* its page, the inter-item sleep of line 499 has been slept, whether the
\* item was saved, found in the store, discarded, or its lookup or its Set
\* failed.
ItemDelayAlways ==
    \A c \in Single :
        (run[c].pc = "itemEnd" /\ run[c].i + 1 < run[c].nItems) => It(c).itemDelay

\* before page p+1 is requested the crawl has slept since the last item of
\* page p
PageDelayState ==
    \A c \in Single :
        /\ (run[c].pc = "loop" /\ run[c].pageNum > 1) => obs[c].pageDelay
        /\ run[c].pc = "pageEnd" => ~obs[c].pageDelay
        /\ run[c].pc \in {"item", "exists", "update", "fetch", "save", "itemEnd"} =>
               ~obs[c].pageDelay
PageDelayStep ==
    \A c \in Single :
        /\ (obs'[c].listingGETs # obs[c].listingGETs /\ run[c].pageNum > 1) =>
               obs[c].pageDelay /\ It(c) = NoItemObs
        /\ (obs'[c].pageDelay /\ ~obs[c].pageDelay) =>
               /\ run[c].pc = "pageEnd" /\ obs[c].finished = run[c].nItems
               /\ obs'[c].listingGETs = obs[c].listingGETs

\* C22: the inter-page sleep of line 503 is slept after the last item of page
\* p has been processed and before the GET of page p+1, for every page p+1
\* that is requested.
PageDelayBetweenPages == []PageDelayState /\ [][PageDelayStep]_vars
\* page 2 was requested, after the sleep
PageDelayBetweenPagesWitness ==
    \E c \in Single :
        /\ obs[c].listingGETs = <<1, 2>> /\ run[c].pc = "item"
        /\ obs[c].served = 2

\* C23: when articleExistsInFirestore returns an error (the Get failed, or
\* the document cannot be converted to a NewsArticle), no Set, no Update and
\* no article GET is issued for the item, nothing is added to allNews, and the
\* callback returns, so that Each goes on with the next item.
LookupErrorSkips ==
    \A c \in Single :
        It(c).lookup \in {"error", "unconvertible"} =>
            /\ run[c].pc = "itemEnd"
            /\ It(c).sets = 0 /\ It(c).updates = 0
            /\ It(c).attempts = <<>> /\ ~It(c).noRequest
            /\ Len(run[c].allNews) = It(c).newsBefore
            /\ ~run[c].err
\* the Get failed for the first of two items
LookupErrorSkipsWitness ==
    \E c \in Single :
        /\ It(c).lookup = "error" /\ run[c].i = 0 /\ run[c].nItems = 2

\* C27: the key of the Set of an item is the key its lookup was made under.
WriteKeyIsLookupKey ==
    \A c \in Single : It(c).sets > 0 => It(c).setKey = It(c).lookupKey

\* C28: every article that is written has a non-empty title, summary, source,
\* URL and content.
WrittenFieldsNonEmpty ==
    \A c \in Single :
        \A k \in 1..Len(obs[c].written) :
            LET a == obs[c].written[k]
            IN  /\ a.title # <<>> /\ a.summary # <<>> /\ a.source # <<>>
                /\ a.url # <<>> /\ a.content # <<>>

\* C25: two different canonical URLs never have the same store key.
KeyInjective ==
    fn = "keys" => (arg[1] # arg[2] => res[1] # res[4])

\* the bytes of "/", ":", "?", "&", "=", "#", "%", "."
Eight == {47, 58, 63, 38, 61, 35, 37, 46}

\* C26: the lookup, the Update and the Set compute the same key from the same
\* URL: the first 500 bytes of the URL with each of / : ? & = # % . replaced
\* by _ and every other byte kept; the key has at most 500 bytes and none of
\* the eight.
KeysAgree ==
    fn = "keys" =>
        LET url == arg[1]
            key == res[1]
        IN  /\ res[2] = key /\ res[3] = key
            /\ Len(key) = (IF Len(url) < 500 THEN Len(url) ELSE 500)
            /\ \A i \in 1..Len(key) :
                   /\ url[i] \in Eight => key[i] = 95
                   /\ url[i] \notin Eight => key[i] = url[i]
                   /\ key[i] \notin Eight
\* a URL of 501 bytes ending in "." has a key of 500 bytes
KeysAgreeWitness ==
    /\ fn = "keys"
    /\ Len(arg[1]) = 501 /\ arg[1][501] = 46
    /\ Len(res[3]) = 500 /\ res[3][6] = 95

\* the charset a Content-Type names: what stands between the first "charset="
\* and the next one (or the end), without the white space around it and in
\* lower case; <<>> when it names none
Named(ct) ==
    LET starts == {i \in 1..Len(ct) : MatchesAt(ct, i, CharsetKey)}
        first  == CHOOSE i \in starts : \A j \in starts : i <= j
        after  == {j \in starts : j >= first + Len(CharsetKey)}
        stop   == IF after = {} THEN Len(ct) + 1
                  ELSE CHOOSE j \in after : \A k \in after : j <= k
    IN  IF starts = {} THEN <<>>
        ELSE ToLower(TrimSpace(SubSeq(ct, first + Len(CharsetKey), stop - 1)))

\* C29: no Content-Type makes the charset step fail: the parser is given
\* the bytes as they are when the header names no charset, names "utf-8", or
\* names a charset htmlindex has no decoder for, and a decoder over the bytes
\* exactly when htmlindex has one for the named charset; the listing page and
\* the article page are treated alike.
CharsetNeverFails ==
    /\ fn \in {"listing", "charset"} =>
           /\ res[1].reader \in {"bytes", "decoder"}
           /\ res[1].reader = "decoder" <=>
                  /\ Named(arg) \notin {<<>>, DefaultCharset}
                  /\ Named(arg) \in KnownLabels
    /\ fn = "charset" => res[2] = res[1]
\* "text/html; charset= euc-kr " gets the decoder on both pages
CharsetNeverFailsWitness ==
    /\ fn = "charset"
    /\ Named(arg) = <<101, 117, 99, 45, 107, 114>> /\ Len(arg) = 27
    /\ res[2].reader = "decoder"

\* the store once the articles of written were Set, in that order, on an empty
\* store
RECURSIVE StoreAfter(_)
StoreAfter(written) ==
    IF written = <<>> THEN EmptyStore
    ELSE StoreSet(StoreAfter(SubSeq(written, 1, Len(written) - 1)),
                  SaveDocID(Last(written).url), Last(written))

\* C24: once a first crawl has written every item of the listing, a second
\* crawl over the same listing issues no Set, has nothing in its result, and
\* leaves the store as it was when the first crawl returned.
RecrawlIdempotent ==
    run[2].pc # "idle" =>
        /\ It(2).sets = 0 /\ obs[2].written = <<>>
        /\ run[2].allNews = <<>>
        /\ store = StoreAfter(obs[1].written)

\* the listing requests do not outnumber the pages asked for, and an item has
\* at most MaxAttempts article requests
RequestsBounded ==
    \A c \in Single :
        /\ Len(obs[c].listingGETs) <= (IF run[c].pages > 0 THEN run[c].pages ELSE 0)
        /\ Len(It(c).attempts) <= MaxAttempts

\* C30: a crawl that was called returns, whatever the page count, the
\* listing and the answers of the site and of the store are; on the way it
\* makes at most pages listing requests and at most 3 article requests for an
\* item.
Terminates ==
    /\ []RequestsBounded
    /\ \A c \in Single : (run[c].pc # "idle") ~> (run[c].pc = "returned")
\* a crawl of two pages has returned after two listing requests and three
\* items
TerminatesWitness ==
    /\ run[1].pc = "returned" /\ run[1].pages = MaxPages
    /\ obs[1].listingGETs = <<1, 2>> /\ obs[1].finished + obs[1].served >= 3
    /\ obs[1].stopped = "done"

\* a crawl called with no page to crawl has done nothing: no listing request,
\* no item, no store call, nothing collected, no error
NothingDone(c) ==
    /\ run[c].pc \in {"loop", "returned"}
    /\ obs[c] \in {IdleObs, [IdleObs EXCEPT !.stopped = "done"]}
    /\ run[c].allNews = <<>> /\ ~run[c].err
    /\ now = 1
DirectState ==
    \A c \in Single :
        /\ run[c].pc # "idle" /\ run[c].pages <= 0 => NothingDone(c)
        /\ obs[c].listingGETs = [k \in 1..Len(obs[c].listingGETs) |-> k]
\* the store is left alone for pages <= 0, and the loop goes on to the page
\* after page 10 when pages says so
DirectStep ==
    \A c \in Single :
        /\ run[c].pc # "idle" /\ run[c].pages <= 0 =>
               /\ store' = store
               /\ run'[c].pc = "returned" /\ obs'[c].stopped = "done"
        /\ run[c].pc = "loop" /\ run[c].pageNum > 10
               /\ run[c].pageNum <= run[c].pages =>
               obs'[c].listingGETs = Append(obs[c].listingGETs, run[c].pageNum)

\* C31: the crawl checks nothing of its page count. Called with pages <= 0
\* it makes no listing request and no store call and returns nothing
\* collected and a nil error; called with pages > 10 it goes on to request
\* the pages after page 10.
DirectUnvalidated == []DirectState /\ [][DirectStep]_vars
\* a crawl called with 11 pages has requested page 11
DirectUnvalidatedWitness ==
    /\ run[1].pages = 11
    /\ Len(obs[1].listingGETs) = 11 /\ Last(obs[1].listingGETs) = 11

=============================================================================
